---- MODULE Spec2Model ----
(***************************************************************************)
(* Model of lib/elasticsearch-stream.js: LibElasticsearchScrollStream, a   *)
(* Readable stream that drives an elasticsearch scroll query.              *)
(*                                                                         *)
(* The stream object's fields are the variables _client, _reading,         *)
(* _counter, _total, _forceClose, _options, _extrafields and objectMode.   *)
(* The elasticsearch client and the node event loop are the environment:   *)
(* the requests whose callback has not run yet (outstanding), the queued   *)
(* setImmediate callbacks (immediates), and the pages the server can still *)
(* deliver (pagesLeft).  events is the observable history: every client    *)
(* call, every push to the consumer, every emitted 'error' and every       *)
(* console.error, in program order.  reads counts the _read invocations,   *)
(* which tells a suppressed _read from no step at all, and delivered holds *)
(* the arguments of the latest client callback.                            *)
(***************************************************************************)
EXTENDS Integers, Sequences, FiniteSets, TLC

VARIABLES _client, _reading, _counter, _total, _forceClose, _options, _extrafields,
          objectMode, outstanding, immediates, pagesLeft, events, reads,
          delivered

vars == <<_client, _reading, _counter, _total, _forceClose, _options, _extrafields,
          objectMode, outstanding, immediates, pagesLeft, events, reads,
          delivered>>

engine == <<_reading, _counter, _total, _forceClose>>
config == <<_client, _options, _extrafields, objectMode>>

----------------------------------------------------------------------------
(* Bounds of the model *)

MaxReads == 2
MaxPages == 2
MaxHits == 2
MaxTotal == 3

----------------------------------------------------------------------------
(* Inputs *)

\* the scroll id the server hands out with its n-th page
ScrollId(n) == n

\* the hits of the index: one carries a field projection, one only _source
Hit1 == [_id |-> "1", fields |-> [title |-> "f1"], _source |-> [title |-> "a"]]
Hit2 == [_id |-> "2", _source |-> [title |-> "b", _id |-> "x"]]
AllHits == {Hit1, Hit2}

\* the pages the server can return: up to n hits of S, none of them twice
PagesUpTo(S, n) ==
  {hs \in UNION {[1..k -> S] : k \in 0..n} :
     \A a, b \in DOMAIN hs : a # b => hs[a] # hs[b]}

\* hits.total as a plain number, or as the 7.x object {value, relation}
NumberTotals == {[typeof |-> "number", number |-> n] : n \in 0..MaxTotal}
ObjectTotals == {[typeof |-> "object", value |-> n, relation |-> "eq"] : n \in 0..MaxTotal}

\* the bodies a server answers with when id is the scroll id it hands out
BodiesWith(totals, id) ==
  {[hits |-> [total |-> t, hits |-> hs], timedOut |-> to,
    _shards |-> [failed |-> f], _scroll_id |-> id] :
      t \in totals, hs \in PagesUpTo(AllHits, MaxHits), to \in BOOLEAN, f \in 0..1}

\* the legacy client hands the callback the body itself, with a numeric
\* total; the 7.x client an object that wraps the body in .body, with an
\* object total
Responses(client, id) ==
  IF client = "legacy"
    THEN BodiesWith(NumberTotals, id)
    ELSE {[body |-> b] : b \in BodiesWith(ObjectTotals, id)}

\* the constructor's arguments: client, query_opts.scroll ("" when the caller
\* leaves it out), optional_fields, and stream_opts.objectMode
Constructions ==
  {[client |-> "legacy", scroll |-> "", optional_fields |-> {}, objectMode |-> TRUE],
   [client |-> "7.x", scroll |-> "1m", optional_fields |-> {"_id"}, objectMode |-> FALSE]}

ClientErrors == {[message |-> <<"es_error">>]}

\* the err argument of a callback that reports no error
null == [null |-> TRUE]

----------------------------------------------------------------------------
(* Events of the history *)

CallEv(op, arg) == [ev |-> "call", op |-> op, arg |-> arg]
PushEv(chunk) == [ev |-> "push", chunk |-> chunk]
EndEv == [ev |-> "end"]
ErrorEv(err) == [ev |-> "error", err |-> err]
ConsoleErrorEv(err) == [ev |-> "console.error", err |-> err]

IsCall(e, op) == e.ev = "call" /\ e.op = op
IsPageCall(e) == e.ev = "call" /\ e.op \in {"search", "scroll"}

----------------------------------------------------------------------------
(* Constructor *)

Init ==
  /\ \E c \in Constructions :
       /\ _client = c.client
       /\ _options = [index |-> "idx",
                      scroll |-> IF c.scroll # "" THEN c.scroll ELSE "10m"]
       /\ _extrafields = c.optional_fields
       /\ objectMode = c.objectMode
  /\ _reading = FALSE
  /\ _counter = 0
  /\ _total = 0
  /\ _forceClose = FALSE
  /\ outstanding = {}
  /\ immediates = 0
  /\ pagesLeft = MaxPages
  /\ events = <<>>
  /\ reads = 0
  /\ delivered = [to |-> 0, err |-> null, response |-> null]

----------------------------------------------------------------------------
(* _read *)

ReadSuppressedNever(reading) == FALSE

\* if (this._reading) return false
ReadSuppressed(reading) == reading

_read ==
  /\ reads < MaxReads
  /\ reads' = reads + 1
  /\ UNCHANGED delivered
  /\ IF ReadSuppressed(_reading)
       THEN UNCHANGED <<engine, config, outstanding, immediates, pagesLeft, events>>
       ELSE /\ _reading' = TRUE
            /\ events' = Append(events, CallEv("search", _options))
            /\ outstanding' = outstanding \cup {Len(events) + 1}
            /\ UNCHANGED <<_counter, _total, _forceClose, config, immediates, pagesLeft>>

----------------------------------------------------------------------------
(* close *)

close ==
  /\ _forceClose' = TRUE
  /\ UNCHANGED <<_reading, _counter, _total, config, outstanding, immediates,
                 pagesLeft, events, reads, delivered>>

----------------------------------------------------------------------------
(* getMoreUntilDone: the callback of search and of scroll *)

\* var body = !!response.body ? response.body : response
BodyOf(response) == IF "body" \in DOMAIN response THEN response.body ELSE response

\* typeof body.hits.total === 'object' ? body.hits.total.value : body.hits.total
TotalOf(body) ==
  IF body.hits.total.typeof = "object" THEN body.hits.total.value
                                       ELSE body.hits.total.number

\* ref_results: hit.fields if present, else hit._source, then the extra fields
\* copied from the hit over it
RefResults(hit, extrafields) ==
  LET base == IF "fields" \in DOMAIN hit THEN hit.fields ELSE hit._source
  IN  [k \in DOMAIN base \cup extrafields |->
         IF k \in extrafields THEN hit[k] ELSE base[k]]

Stringify(ref) == [json |-> ref]

\* objectMode ? ref_results : JSON.stringify(ref_results)
Chunk(hit, extrafields, om) ==
  IF om THEN RefResults(hit, extrafields) ELSE Stringify(RefResults(hit, extrafields))

PushesReversed(hits, extrafields, om) ==
  [k \in 1..Len(hits) |-> PushEv(Chunk(hits[Len(hits) + 1 - k], extrafields, om))]

\* the pushes of body.hits.hits.forEach, in order
Pushes(hits, extrafields, om) ==
  [k \in 1..Len(hits) |-> PushEv(Chunk(hits[k], extrafields, om))]

TimedOutError(total, counter) ==
  [message |-> <<"Scroll request timed out">>, timedOut |-> TRUE,
   total |-> total, counter |-> counter]

ShardsError(shards, total, counter) ==
  [message |-> <<"At least one shard failed">>, shards |-> shards,
   total |-> total, counter |-> counter]

NoHitsErrorSwapped(total, counter) ==
  LET missingObjects == counter - total
  IN  [message |-> <<"No more hits. Expected ", missingObjects,
                     " more objects. Closing stream.">>,
       total |-> total, counter |-> counter, missing |-> missingObjects]

NoHitsError(total, counter) ==
  LET missingObjects == total - counter
  IN  [message |-> <<"No more hits. Expected ", missingObjects,
                     " more objects. Closing stream.">>,
       total |-> total, counter |-> counter, missing |-> missingObjects]

MoreToScrollWhileBelow(total, counter, forceClose) == total > counter /\ ~forceClose

MoreToScrollIgnoringClose(total, counter, forceClose) == total # counter

MoreToScrollUnlessClosed(total, counter, forceClose) == ~forceClose

\* self._total !== self._counter && !self._forceClose
MoreToScroll(total, counter, forceClose) == total # counter /\ ~forceClose

ResponseErrorIgnoringShards(body, total, counter) ==
  IF body.timedOut THEN TimedOutError(total, counter)
  ELSE IF Len(body.hits.hits) = 0 THEN NoHitsError(total, counter)
  ELSE null

ResponseErrorShardsFirst(body, total, counter) ==
  IF body._shards.failed > 0 THEN ShardsError(body._shards, total, counter)
  ELSE IF body.timedOut THEN TimedOutError(total, counter)
  ELSE IF Len(body.hits.hits) = 0 THEN NoHitsError(total, counter)
  ELSE null

ResponseErrorEmptyFirst(body, total, counter) ==
  IF Len(body.hits.hits) = 0 THEN NoHitsError(total, counter)
  ELSE IF body.timedOut THEN TimedOutError(total, counter)
  ELSE IF body._shards.failed > 0 THEN ShardsError(body._shards, total, counter)
  ELSE null

\* the error a successful response is answered with, or null
ResponseError(body, total, counter) ==
  IF body.timedOut THEN TimedOutError(total, counter)
  ELSE IF body._shards.failed > 0 THEN ShardsError(body._shards, total, counter)
  ELSE IF Len(body.hits.hits) = 0 THEN NoHitsError(total, counter)
  ELSE null

PageEventsDefaultKeepAlive(body, total, counter, forceClose, options, extrafields, om) ==
  LET hits == body.hits.hits
      pushes == Pushes(hits, extrafields, om)
  IN  IF MoreToScroll(total, counter + Len(hits), forceClose)
        THEN pushes \o <<CallEv("scroll", [scroll |-> "10m",
                                           scroll_id |-> body._scroll_id])>>
        ELSE pushes \o <<CallEv("clearScroll", [scrollId |-> <<body._scroll_id>>])>>

\* the events of one run of the callback after a successful response
PageEvents(body, total, counter, forceClose, options, extrafields, om) ==
  LET hits == body.hits.hits
      pushes == Pushes(hits, extrafields, om)
  IN  IF MoreToScroll(total, counter + Len(hits), forceClose)
        THEN pushes \o <<CallEv("scroll", [scroll |-> options.scroll,
                                           scroll_id |-> body._scroll_id])>>
        ELSE pushes \o <<CallEv("clearScroll", [scrollId |-> <<body._scroll_id>>])>>

ClientErrorClearsReading(i, err) ==
  /\ events' = Append(events, ErrorEv(err))
  /\ outstanding' = outstanding \ {i}
  /\ _reading' = FALSE
  /\ UNCHANGED <<_counter, _total, _forceClose>>

\* if (err) return self.emit('error', err)
ClientError(i, err) ==
  /\ events' = Append(events, ErrorEv(err))
  /\ outstanding' = outstanding \ {i}
  /\ UNCHANGED engine

getMoreUntilDone(i, err, response) ==
  /\ i \in outstanding
  /\ IsPageCall(events[i])
  /\ IF err # null
       THEN ClientError(i, err)
       ELSE LET body == BodyOf(response)
                total == TotalOf(body)
                error == ResponseError(body, total, _counter)
            IN  /\ _total' = total
                /\ IF error # null
                     THEN /\ events' = Append(events, ErrorEv(error))
                          /\ outstanding' = outstanding \ {i}
                          /\ UNCHANGED <<_reading, _counter, _forceClose>>
                     ELSE /\ events' = events \o PageEvents(body, total, _counter,
                                 _forceClose, _options, _extrafields, objectMode)
                          /\ _counter' = _counter + Len(body.hits.hits)
                          /\ outstanding' = (outstanding \ {i}) \cup {Len(events')}
                          /\ UNCHANGED <<_reading, _forceClose>>
  /\ UNCHANGED <<config, immediates, reads>>

----------------------------------------------------------------------------
(* the callback of clearScroll, and the function it hands to setImmediate *)

clearScrollCallbackTwice(i, err) ==
  /\ i \in outstanding
  /\ IsCall(events[i], "clearScroll")
  /\ outstanding' = outstanding \ {i}
  /\ events' = IF err # null THEN Append(events, ConsoleErrorEv(err)) ELSE events
  /\ immediates' = immediates + 2
  /\ UNCHANGED <<engine, config, pagesLeft, reads>>

clearScrollCallbackSurfacing(i, err) ==
  /\ i \in outstanding
  /\ IsCall(events[i], "clearScroll")
  /\ outstanding' = outstanding \ {i}
  /\ events' = IF err # null THEN Append(events, ErrorEv(err)) ELSE events
  /\ immediates' = IF err # null THEN immediates ELSE immediates + 1
  /\ UNCHANGED <<engine, config, pagesLeft, reads>>

clearScrollCallbackSynchronous(i, err) ==
  /\ i \in outstanding
  /\ IsCall(events[i], "clearScroll")
  /\ outstanding' = outstanding \ {i}
  /\ events' = IF err # null THEN events \o <<ConsoleErrorEv(err), EndEv>>
                             ELSE Append(events, EndEv)
  /\ _reading' = FALSE
  /\ _counter' = 0
  /\ _forceClose' = FALSE
  /\ UNCHANGED <<_total, immediates, config, pagesLeft, reads>>

clearScrollCallbackReturningOnError(i, err) ==
  /\ i \in outstanding
  /\ IsCall(events[i], "clearScroll")
  /\ outstanding' = outstanding \ {i}
  /\ events' = IF err # null THEN Append(events, ConsoleErrorEv(err)) ELSE events
  /\ immediates' = IF err # null THEN immediates ELSE immediates + 1
  /\ UNCHANGED <<engine, config, pagesLeft, reads>>

clearScrollCallback(i, err) ==
  /\ i \in outstanding
  /\ IsCall(events[i], "clearScroll")
  /\ outstanding' = outstanding \ {i}
  /\ events' = IF err # null THEN Append(events, ConsoleErrorEv(err)) ELSE events
  /\ immediates' = immediates + 1
  /\ UNCHANGED <<engine, config, pagesLeft, reads>>

endCorrectlyKeepsCounter ==
  /\ immediates > 0
  /\ immediates' = immediates - 1
  /\ _reading' = FALSE
  /\ _forceClose' = FALSE
  /\ events' = Append(events, EndEv)
  /\ UNCHANGED <<_counter, _total, config, outstanding, pagesLeft, reads, delivered>>

endCorrectlyKeepsReading ==
  /\ immediates > 0
  /\ immediates' = immediates - 1
  /\ _counter' = 0
  /\ _forceClose' = FALSE
  /\ events' = Append(events, EndEv)
  /\ UNCHANGED <<_reading, _total, config, outstanding, pagesLeft, reads, delivered>>

endCorrectly ==
  /\ immediates > 0
  /\ immediates' = immediates - 1
  /\ _reading' = FALSE
  /\ _counter' = 0
  /\ _forceClose' = FALSE
  /\ events' = Append(events, EndEv)
  /\ UNCHANGED <<_total, config, outstanding, pagesLeft, reads, delivered>>

----------------------------------------------------------------------------
(* The elasticsearch client and the server behind it *)

\* search or scroll fails at the client
ClientFails ==
  \E i \in outstanding, err \in ClientErrors :
    /\ getMoreUntilDone(i, err, null)
    /\ delivered' = [to |-> i, err |-> err, response |-> null]
    /\ UNCHANGED pagesLeft

\* search or scroll is answered; the server delivers at most MaxPages pages
\* that carry hits
ClientResponds ==
  \E i \in outstanding,
     response \in Responses(_client, ScrollId(MaxPages - pagesLeft + 1)) :
    LET n == Len(BodyOf(response).hits.hits)
    IN  /\ n > 0 => pagesLeft > 0
        /\ getMoreUntilDone(i, null, response)
        /\ delivered' = [to |-> i, err |-> null, response |-> response]
        /\ pagesLeft' = IF n > 0 THEN pagesLeft - 1 ELSE pagesLeft

\* clearScroll is acknowledged or fails
ClearScrollReturns ==
  \E i \in outstanding, err \in ClientErrors \cup {null} :
    /\ clearScrollCallback(i, err)
    /\ delivered' = [to |-> i, err |-> err, response |-> null]

Next ==
  \/ _read
  \/ close
  \/ ClientFails
  \/ ClientResponds
  \/ ClearScrollReturns
  \/ endCorrectly

Spec == Init /\ [][Next]_vars

\* every clearScroll the client takes is answered, and the event loop runs
\* every callback handed to setImmediate
FairFinalization ==
  /\ Spec
  /\ WF_vars(ClearScrollReturns)
  /\ WF_vars(endCorrectly)

----------------------------------------------------------------------------
(* What one step adds to the history *)

NewEvents == SubSeq(events', Len(events) + 1, Len(events'))
NewCalls == SelectSeq(NewEvents, LAMBDA e : e.ev = "call")
NewCallsOf(op) == SelectSeq(NewEvents, LAMBDA e : IsCall(e, op))
NewPushes == SelectSeq(NewEvents, LAMBDA e : e.ev = "push")
NewErrors == SelectSeq(NewEvents, LAMBDA e : e.ev = "error")
NewEnds == SelectSeq(NewEvents, LAMBDA e : e.ev = "end")

CallsOf(op) == SelectSeq(events, LAMBDA e : IsCall(e, op))
Pushed == SelectSeq(events, LAMBDA e : e.ev = "push")
Errors == SelectSeq(events, LAMBDA e : e.ev = "error")
Ends == SelectSeq(events, LAMBDA e : e.ev = "end")

\* the step is a _read
ReadStep == reads' # reads

\* the step runs the callback of a search or a scroll
PageCallbackStep ==
  delivered' # delivered /\ IsPageCall(events[delivered'.to])

\* the step runs the callback of a search or a scroll with a response
ResponseStep == PageCallbackStep /\ delivered'.err = null

\* the step runs the callback of clearScroll
ClearScrollCallbackStep ==
  delivered' # delivered /\ IsCall(events[delivered'.to], "clearScroll")

\* the body of the response the step delivers
NewBody == BodyOf(delivered'.response)

----------------------------------------------------------------------------
(* C1 *)

\* C1: a _read that finds _reading true is a no-op: the step issues no client
\* call, pushes nothing, signals nothing, and leaves _reading, _counter,
\* _total, _forceClose, the outstanding request (and with it the scroll id in
\* use) and the pending setImmediate callbacks unchanged.
ReentrantReadIsNoOp ==
  [][(ReadStep /\ _reading) =>
       /\ events' = events
       /\ UNCHANGED <<engine, config, outstanding, immediates, delivered>>]_vars

\* a search is outstanding and two reads were made: the first one issued the
\* search, and the second one found _reading true
ReentrantReadHappened ==
  /\ reads = 2
  /\ Len(events) = 1 /\ IsCall(events[1], "search")
  /\ outstanding = {1}

----------------------------------------------------------------------------
(* C2 *)

ScrollCallFor(body) ==
  CallEv("scroll", [scroll |-> _options.scroll, scroll_id |-> body._scroll_id])

ClearScrollCallFor(body) ==
  CallEv("clearScroll", [scrollId |-> <<body._scroll_id>>])

\* the history is that of one query delivered as a page of 2 hits, then a page
\* of 1 hit that reports a total of 3, and of no later page
TwoThenOneDelivered ==
  /\ Len(events) >= 6
  /\ \A k \in 7..Len(events) : events[k].ev \in {"console.error", "end"}
  /\ IsCall(events[1], "search")
  /\ events[2].ev = "push" /\ events[3].ev = "push"
  /\ events[4].ev = "call"
  /\ events[5].ev = "push"
  /\ events[6].ev = "call"
  /\ Len(CallsOf("search")) = 1
  /\ _total = 3

\* C2: the step that pushes a page of hits issues exactly one client call: a
\* scroll with the configured keep-alive and that page's _scroll_id when
\* _counter # _total and _forceClose is false, and otherwise a clearScroll with
\* that page's _scroll_id.  A query delivered as pages of 2 then 1 hits with
\* total 3 sees exactly one scroll call.
ContinuationAfterPage ==
  /\ [][(ResponseStep /\ Len(NewPushes) > 0) =>
          IF _counter' # _total' /\ ~_forceClose'
            THEN NewCalls = <<ScrollCallFor(NewBody)>>
            ELSE NewCalls = <<ClearScrollCallFor(NewBody)>>]_vars
  /\ [](TwoThenOneDelivered =>
          /\ Len(CallsOf("scroll")) = 1
          /\ IsCall(events[4], "scroll")
          /\ IsCall(events[6], "clearScroll"))

\* pages of 2 then 1 hits with total 3 were delivered and the engine moved on
TwoThenOneHappened ==
  TwoThenOneDelivered /\ _counter = 3 /\ Len(events) = 6

----------------------------------------------------------------------------
(* C3 *)

\* the response carries hits and reports neither a timeout nor a failed shard
DataPage(body) ==
  ~body.timedOut /\ body._shards.failed = 0 /\ Len(body.hits.hits) > 0

\* a clearScroll is outstanding
Draining == \E i \in outstanding : IsCall(events[i], "clearScroll")

\* the latest event is the end-of-sequence push of a reset engine
EndedAndReset ==
  /\ Len(events) > 0 /\ events[Len(events)] = EndEv
  /\ ~_reading /\ _counter = 0 /\ ~_forceClose

\* no scroll call follows a clearScroll call unless a search lies between them
NoScrollAfterClearScroll ==
  \A j, k \in 1..Len(events) :
    (j < k /\ IsCall(events[j], "clearScroll") /\ IsCall(events[k], "scroll"))
      => \E m \in (j + 1)..(k - 1) : IsCall(events[m], "search")

----------------------------------------------------------------------------
(* C4 *)

\* the events of the lifecycle that the search at position k starts
Lifecycle(k) ==
  LET later == {m \in (k + 1)..Len(events) : IsCall(events[m], "search")}
      last == IF later = {} THEN Len(events)
              ELSE (CHOOSE m \in later : \A n \in later : m <= n) - 1
  IN  SubSeq(events, k, last)

Starts == {k \in 1..Len(events) : IsCall(events[k], "search")}

Positions(seq, ev) == {k \in 1..Len(seq) : seq[k].ev = ev}
ClearScrollPositions(seq) == {k \in 1..Len(seq) : IsCall(seq[k], "clearScroll")}

\* C4: in every lifecycle clearScroll is called at most once and the end of
\* the sequence is pushed at most once; a lifecycle in which _counter reached
\* _total or close() took effect has called clearScroll; and a lifecycle that
\* has pushed the end of the sequence has called clearScroll exactly once,
\* before that push.
ReleasedOnceThenEnded ==
  /\ [](\A k \in Starts :
          LET life == Lifecycle(k)
              clears == ClearScrollPositions(life)
              ends == Positions(life, "end")
          IN  /\ Cardinality(clears) <= 1
              /\ Cardinality(ends) <= 1
              /\ ends # {} => /\ Cardinality(clears) = 1
                              /\ \A c \in clears, e \in ends : c < e)
  /\ [][(ResponseStep /\ Len(NewPushes) > 0 /\ (_counter' = _total' \/ _forceClose'))
          => Len(NewCallsOf("clearScroll")) = 1]_vars
  /\ [](events # <<>> => IsCall(events[1], "search"))

\* two lifecycles have each released the scroll and ended
TwoLifecyclesEnded ==
  /\ Len(CallsOf("search")) = 2
  /\ Len(CallsOf("clearScroll")) = 2
  /\ Len(Ends) = 2

----------------------------------------------------------------------------
(* C5 *)

\* C5: the callback of a clearScroll that failed emits no 'error': all it adds
\* to the history is the console.error of the failure, and like the callback
\* of a clearScroll that succeeded it leaves the engine's fields alone and
\* hands one function to setImmediate; that function resets _reading, _counter
\* and _forceClose and pushes the end of the sequence, so that the event after
\* a logged failure is always the end of the sequence.
ClearScrollFailureSwallowed ==
  /\ [][ClearScrollCallbackStep =>
          /\ NewEvents = IF delivered'.err # null
                           THEN <<ConsoleErrorEv(delivered'.err)>> ELSE <<>>
          /\ immediates' = immediates + 1
          /\ UNCHANGED engine]_vars
  /\ [][immediates' < immediates =>
          /\ NewEvents = <<EndEv>>
          /\ ~_reading' /\ _counter' = 0 /\ ~_forceClose']_vars
  /\ [](\A k \in Positions(events, "console.error") :
          /\ k = Len(events) => immediates = 1
          /\ k < Len(events) => events[k + 1] = EndEv)

\* a clearScroll failed, and the engine has reset and ended the sequence
EndedAfterFailedClearScroll ==
  /\ Len(events) >= 2
  /\ events[Len(events) - 1].ev = "console.error"
  /\ EndedAndReset

----------------------------------------------------------------------------
(* C6 *)

\* the step runs the callback of a search or a scroll that failed
ClientFailureStep == PageCallbackStep /\ delivered'.err # null

\* no client call follows the event at position k
NoCallAfter(k) == \A m \in (k + 1)..Len(events) : events[m].ev # "call"

ErrorPositions == Positions(events, "error")

\* C6 as stated: a failed search or scroll sets _reading to false, emits the
\* client's error and makes no further client call.
ClientFailureClearsReading ==
  [][ClientFailureStep =>
       /\ ~_reading'
       /\ NewEvents = <<ErrorEv(delivered'.err)>>]_vars

\* C6, amended: a failed search or scroll leaves _reading true (and _counter,
\* _total and _forceClose as they were), its callback adds the client's error
\* to the history and nothing else, the request is no longer outstanding, and
\* no client call follows that error.
ClientFailureKeepsReading ==
  /\ [][ClientFailureStep =>
          /\ _reading /\ _reading'
          /\ UNCHANGED <<_counter, _total, _forceClose, immediates>>
          /\ NewEvents = <<ErrorEv(delivered'.err)>>
          /\ outstanding' = outstanding \ {delivered'.to}]_vars
  /\ [](\A k \in ErrorPositions :
          events[k].err \in ClientErrors => NoCallAfter(k) /\ _reading)

\* the scroll that followed a first page failed at the client
ScrollFailedAtClient ==
  /\ Len(events) > 2
  /\ IsCall(events[Len(events) - 1], "scroll")
  /\ events[Len(events)].ev = "error" /\ events[Len(events)].err \in ClientErrors
  /\ _reading

----------------------------------------------------------------------------
(* C7 *)

\* the step delivers a response without hits while _counter is below its total
EmptyPageBelowTotal ==
  ResponseStep /\ Len(NewBody.hits.hits) = 0 /\ _counter < _total'

IsNoHitsError(e) == e.ev = "error" /\ "missing" \in DOMAIN e.err

\* C7 as stated: every response without hits received while _counter is below
\* its total is answered by the error that carries missing = total - counter.
EmptyPageSignalsIncomplete ==
  [][EmptyPageBelowTotal =>
       /\ Len(NewEvents) = 1
       /\ IsNoHitsError(NewEvents[1])
       /\ NewEvents[1].err.missing = _total' - _counter]_vars

\* C7, amended: a response without hits that reports neither a timeout nor a
\* failed shard, received while _counter is below its total, is answered by
\* exactly one error, which carries that total, _counter and
\* missing = total - counter; no client call follows it.
PlainEmptyPageSignalsIncomplete ==
  /\ [][(EmptyPageBelowTotal /\ ~NewBody.timedOut /\ NewBody._shards.failed = 0) =>
          /\ Len(NewEvents) = 1
          /\ IsNoHitsError(NewEvents[1])
          /\ NewEvents[1].err.total = _total'
          /\ NewEvents[1].err.counter = _counter
          /\ NewEvents[1].err.missing = _total' - _counter
          /\ UNCHANGED <<_reading, _counter, _forceClose>>]_vars
  /\ [](\A k \in ErrorPositions : IsNoHitsError(events[k]) => NoCallAfter(k))

\* after one hit of a total of 3, an empty page was answered with missing = 2
IncompleteAfterOneOfThree ==
  /\ Len(events) > 0
  /\ IsNoHitsError(events[Len(events)])
  /\ events[Len(events)].err.counter = 1
  /\ events[Len(events)].err.total = 3
  /\ events[Len(events)].err.missing = 2

----------------------------------------------------------------------------
(* C8 *)

\* C8: the error that carries a missing count is emitted only with _counter
\* below the total, and a response without hits (and without timeout or failed
\* shard) received with _counter equal to its total is answered by no error
\* but by the clearScroll that starts the finalization.
EmptyPageAtTotalFinalizes ==
  /\ [](\A k \in ErrorPositions :
          IsNoHitsError(events[k]) => events[k].err.counter < events[k].err.total)
  /\ [][(ResponseStep /\ Len(NewBody.hits.hits) = 0 /\ _counter = _total'
          /\ ~NewBody.timedOut /\ NewBody._shards.failed = 0) =>
          /\ NewErrors = <<>>
          /\ NewCalls = <<ClearScrollCallFor(NewBody)>>]_vars

----------------------------------------------------------------------------
(* C9 *)

IsShardsError(e) == e.ev = "error" /\ "shards" \in DOMAIN e.err

\* C9 as stated: every response that reports a failed shard is answered by
\* the error that carries the shards.
FailedShardSignalsShardsError ==
  [][(ResponseStep /\ NewBody._shards.failed > 0) =>
       /\ Len(NewEvents) = 1
       /\ IsShardsError(NewEvents[1])]_vars

\* C9, amended: a response that reports a failed shard and no timeout is
\* answered by exactly one error, which carries the response's _shards, its
\* total and _counter; none of its hits is pushed, _counter stays, and no
\* client call follows.
FailedShardWithoutTimeoutSignalsShardsError ==
  /\ [][(ResponseStep /\ NewBody._shards.failed > 0 /\ ~NewBody.timedOut) =>
          /\ Len(NewEvents) = 1
          /\ IsShardsError(NewEvents[1])
          /\ NewEvents[1].err.shards = NewBody._shards
          /\ NewEvents[1].err.total = _total'
          /\ NewEvents[1].err.counter = _counter
          /\ UNCHANGED <<_reading, _counter, _forceClose>>]_vars
  /\ [](\A k \in ErrorPositions : IsShardsError(events[k]) => NoCallAfter(k))

\* a second page that carried hits reported a failed shard
ShardFailedOnSecondPage ==
  /\ Len(events) > 0
  /\ IsShardsError(events[Len(events)])
  /\ events[Len(events)].err.counter > 0
  /\ Len(BodyOf(delivered.response).hits.hits) > 0

----------------------------------------------------------------------------
(* C10 *)

IsTimedOutError(e) == e.ev = "error" /\ "timedOut" \in DOMAIN e.err

\* C10: a response whose timedOut is set is answered by exactly one error,
\* which carries timedOut, the response's total and _counter; none of its hits
\* is pushed, _counter stays, and no client call follows.
TimedOutSignalsTimeout ==
  /\ [][(ResponseStep /\ NewBody.timedOut) =>
          /\ Len(NewEvents) = 1
          /\ IsTimedOutError(NewEvents[1])
          /\ NewEvents[1].err.timedOut
          /\ NewEvents[1].err.total = _total'
          /\ NewEvents[1].err.counter = _counter
          /\ UNCHANGED <<_reading, _counter, _forceClose>>]_vars
  /\ [](\A k \in ErrorPositions : IsTimedOutError(events[k]) => NoCallAfter(k))

\* a second page that carried hits and a failed shard had timed out
TimedOutOnSecondPage ==
  /\ Len(events) > 0
  /\ IsTimedOutError(events[Len(events)])
  /\ events[Len(events)].err.counter > 0
  /\ Len(BodyOf(delivered.response).hits.hits) > 0
  /\ BodyOf(delivered.response)._shards.failed > 0

----------------------------------------------------------------------------
(* C11 *)

\* the step pushes the end of the sequence or resets one of the engine's fields
EndOrResetStep ==
  \/ NewEnds # <<>>
  \/ _reading /\ ~_reading'
  \/ _forceClose /\ ~_forceClose'
  \/ _counter' < _counter

\* C11: the reset and the push of the end of the sequence are one step of
\* their own, the function handed to setImmediate: that step runs no client
\* callback, and it comes after the callback of clearScroll, which itself
\* comes after the callback of the response; the callbacks of the client
\* neither reset a field nor push the end.  When the end is pushed, _counter
\* is 0 and _forceClose and _reading are false.
ResetAndEndDeferred ==
  /\ [][EndOrResetStep =>
          /\ immediates > 0 /\ immediates' = immediates - 1
          /\ NewEvents = <<EndEv>>
          /\ UNCHANGED <<delivered, outstanding>>
          /\ IsCall(events[delivered.to], "clearScroll")
          /\ _counter' = 0 /\ ~_forceClose' /\ ~_reading']_vars
  /\ [][(PageCallbackStep \/ ClearScrollCallbackStep) =>
          /\ NewEnds = <<>>
          /\ UNCHANGED <<_reading, _forceClose>>
          /\ _counter' >= _counter]_vars
  /\ [](immediates > 0 => outstanding = {} /\ _reading)

\* the clearScroll was acknowledged, and a later step has reset the engine and
\* pushed the end
EndedAfterAcknowledgedClearScroll ==
  /\ Len(events) >= 2
  /\ IsCall(events[Len(events) - 1], "clearScroll")
  /\ EndedAndReset
  /\ immediates = 0

----------------------------------------------------------------------------
(* C12 *)

\* the events of the lifecycle that the latest search started
CurrentLifecycle ==
  IF Starts = {} THEN <<>>
  ELSE Lifecycle(CHOOSE k \in Starts : \A m \in Starts : m <= k)

PushedIn(seq) == SelectSeq(seq, LAMBDA e : e.ev = "push")

\* C12: a page that ends the scroll while close() has not been called has
\* brought the number of records pushed in its lifecycle to the total it
\* reports; nothing is pushed and _total does not change between that page and
\* the end of the sequence; so when the end is pushed in a lifecycle in which
\* close() was not called (and none that saw an error gets there), the
\* lifecycle has pushed _total records.
EndedWithTotalPushed ==
  /\ [][(ResponseStep /\ NewCallsOf("clearScroll") # <<>> /\ ~_forceClose) =>
          /\ _total' = TotalOf(NewBody)
          /\ Len(PushedIn(CurrentLifecycle')) = _total']_vars
  /\ [][(ClearScrollCallbackStep \/ NewEnds # <<>>) =>
          (NewPushes = <<>> /\ _total' = _total)]_vars
  /\ [][(NewEnds # <<>> /\ ~_forceClose) =>
          /\ Len(PushedIn(CurrentLifecycle)) = _total
          /\ \A k \in 1..Len(CurrentLifecycle) : CurrentLifecycle[k].ev # "error"]_vars

\* a second lifecycle has ended with as many records pushed as the total of
\* its last page
SecondLifecycleEndedComplete ==
  /\ Len(CallsOf("search")) = 2
  /\ Len(Ends) = 2
  /\ events[Len(events)] = EndEv
  /\ Len(PushedIn(CurrentLifecycle)) = _total

----------------------------------------------------------------------------
(* C13 *)

\* C13: the history only grows; the callback of a response that carries hits
\* and reports neither a timeout nor a failed shard pushes one record per hit,
\* the k-th push being the record of the k-th hit; and no other step pushes
\* anything.  So the records pushed are the hits of the processed pages, page
\* after page, in the order of the page.
PushedInPageOrder ==
  /\ [][/\ Len(events') >= Len(events)
        /\ SubSeq(events', 1, Len(events)) = events]_vars
  /\ [][IF ResponseStep /\ DataPage(NewBody)
          THEN /\ Len(NewPushes) = Len(NewBody.hits.hits)
               /\ \A k \in 1..Len(NewPushes) :
                    /\ NewEvents[k] = NewPushes[k]
                    /\ NewPushes[k].chunk =
                         Chunk(NewBody.hits.hits[k], _extrafields, objectMode)
          ELSE NewPushes = <<>>]_vars

\* a page of one hit and then a page of the two hits, the second hit first,
\* have been pushed
ThreeRecordsPushed ==
  /\ Len(Pushed) = 3
  /\ Pushed[1].chunk = Chunk(Hit1, _extrafields, objectMode)
  /\ Pushed[2].chunk = Chunk(Hit2, _extrafields, objectMode)
  /\ Pushed[3].chunk = Chunk(Hit1, _extrafields, objectMode)
  /\ events[3].ev = "call"

----------------------------------------------------------------------------
(* C14 *)

\* a scroll is outstanding
Scrolling == \E i \in outstanding : IsCall(events[i], "scroll")

\* the step delivers the response of a scroll, that is a page after the first
LaterPageStep == ResponseStep /\ IsCall(events[delivered'.to], "scroll")

\* C14 as stated: _counter never decreases, and it exceeds _total only after a
\* page of a scroll that reports another total than the page before it.
CounterNeverDecreases ==
  /\ [][_counter' >= _counter]_vars
  /\ [][(_counter' > _total' /\ ~(_counter > _total /\ _total' = _total)) =>
          (LaterPageStep /\ _total' # _total)]_vars

\* C14, amended: _counter changes in two ways only: the callback of a page
\* adds the number of records it pushes, and the function handed to
\* setImmediate resets it to 0; so it never decreases within a lifecycle.  A
\* scroll is only outstanding with _counter different from _total, and
\* _counter comes to exceed _total only by a page of a scroll that reports
\* another total than the page before it, or by a page that carries more hits
\* than its total leaves to deliver.
CounterGrowsUntilReset ==
  /\ [][_counter' # _counter =>
          \/ ResponseStep /\ _counter' = _counter + Len(NewPushes)
                          /\ Len(NewPushes) > 0
          \/ NewEnds # <<>> /\ _counter' = 0]_vars
  /\ [](Scrolling => _counter # _total /\ _counter > 0)
  /\ [](_counter = Len(PushedIn(CurrentLifecycle)) \/ ~_reading)
  /\ [][(_counter' > _total' /\ ~(_counter > _total /\ _total' = _total)) =>
          /\ ResponseStep
          /\ \/ LaterPageStep /\ _total' # _total
             \/ Len(NewBody.hits.hits) > _total' - _counter]_vars

\* the first page carried more hits than the total it reported, with no page
\* before it
FirstPageBeyondItsTotal ==
  /\ Len(CallsOf("search")) = 1
  /\ Len(CallsOf("scroll")) = 1
  /\ Scrolling
  /\ _counter > _total

----------------------------------------------------------------------------
(* C15 *)

\* C15: at most one client request is outstanding and at most one function is
\* waiting with setImmediate, never both; and _reading is true whenever there
\* is one.
SingleFlight ==
  /\ Cardinality(outstanding) + immediates <= 1
  /\ (outstanding # {} \/ immediates > 0) => _reading
  /\ \A i \in outstanding : i = Len(events) /\ events[i].ev = "call"

\* a scroll is outstanding, read after read was made, and close() was called
ScrollingThroughReadsAndClose ==
  /\ Scrolling
  /\ reads = 2
  /\ _forceClose

----------------------------------------------------------------------------
(* C16 *)

\* the pages of the server that were answered by a call up to position k
PagesCalledFor(k) ==
  Cardinality({m \in 1..k : IsCall(events[m], "scroll")
                            \/ IsCall(events[m], "clearScroll")})

\* C16: without a read there is no client call.  A search carries _options,
\* and it is the first event or comes right after the end of a sequence; a
\* scroll comes after a search or a scroll of the same lifecycle, with only
\* pushes since, and carries the keep-alive of _options and the _scroll_id of
\* the page it answers, which is the latest page of the server.
SearchThenScrolls ==
  /\ [](reads = 0 => events = <<>>)
  /\ [][_options' = _options]_vars
  /\ [](\A k \in 1..Len(events) :
          /\ IsCall(events[k], "search") =>
               /\ events[k].arg = _options
               /\ k = 1 \/ events[k - 1] = EndEv
          /\ IsCall(events[k], "scroll") =>
               /\ events[k].arg = [scroll |-> _options.scroll,
                                   scroll_id |-> ScrollId(PagesCalledFor(k))]
               /\ \E j \in 1..(k - 1) :
                    /\ IsPageCall(events[j])
                    /\ \A m \in (j + 1)..(k - 1) : events[m].ev = "push")
  /\ [][(ResponseStep /\ NewCallsOf("scroll") # <<>>) =>
          NewCalls = <<ScrollCallFor(NewBody)>>]_vars

\* a query with its own keep-alive has scrolled twice
ScrolledTwiceWithOwnKeepAlive ==
  /\ Len(CallsOf("scroll")) = 2
  /\ _options.scroll = "1m"
  /\ Scrolling

----------------------------------------------------------------------------
(* C17 *)

\* C17: the callback of a response emits at most one error: the timeout error
\* if timedOut is set, whatever the shards and the hits; else the shards error
\* if a shard failed, whatever the hits; else the error with the missing count
\* if there is no hit; else none.  A callback that emits an error adds nothing
\* else to the history and leaves _counter and _forceClose as they were.
OneErrorByPrecedence ==
  [][ResponseStep =>
       /\ Len(NewErrors) <= 1
       /\ IF NewBody.timedOut
            THEN Len(NewErrors) = 1 /\ IsTimedOutError(NewErrors[1])
                 /\ ~IsShardsError(NewErrors[1]) /\ ~IsNoHitsError(NewErrors[1])
          ELSE IF NewBody._shards.failed > 0
            THEN Len(NewErrors) = 1 /\ IsShardsError(NewErrors[1])
                 /\ ~IsNoHitsError(NewErrors[1])
          ELSE IF Len(NewBody.hits.hits) = 0
            THEN Len(NewErrors) = 1 /\ IsNoHitsError(NewErrors[1])
          ELSE NewErrors = <<>>
       /\ NewErrors # <<>> =>
            /\ NewEvents = NewErrors
            /\ UNCHANGED <<_counter, _forceClose, _reading>>]_vars

\* after a first page, a response that timed out, has a failed shard and has
\* no hit was answered by the timeout error
TimedOutFailedAndEmpty ==
  /\ Len(events) > 0
  /\ IsTimedOutError(events[Len(events)])
  /\ delivered.response # null
  /\ BodyOf(delivered.response)._shards.failed > 0
  /\ Len(BodyOf(delivered.response).hits.hits) = 0
  /\ _counter > 0

----------------------------------------------------------------------------
(* C18 *)

\* C18: once an error is emitted it stays the last event of the history: no
\* client call, no record and no end of the sequence comes after it, whatever
\* is read or closed; no request is outstanding, no reset is pending, and
\* _reading stays true, so that every later _read is suppressed.
TerminalAfterError ==
  /\ [](\A k \in ErrorPositions :
          /\ k = Len(events)
          /\ outstanding = {} /\ immediates = 0
          /\ _reading)
  /\ [][Errors # <<>> =>
          /\ events' = events
          /\ UNCHANGED <<_reading, _counter, _total, outstanding, immediates>>]_vars

\* a scroll was answered by an error while close() had been called, and a
\* read was made since the scroll was issued
ErrorThenNothing ==
  /\ Len(Errors) = 1
  /\ IsCall(events[Len(events) - 1], "scroll")
  /\ reads = 2
  /\ _forceClose

----------------------------------------------------------------------------
(* C19 *)

\* a search or a scroll is waiting for its callback
PageOutstanding == \E i \in outstanding : IsPageCall(events[i])

\* C19: provided no search or scroll waits for its callback for ever (the
\* server has at most MaxPages pages, clearScroll is answered and the event
\* loop runs what setImmediate was handed), a stream that a _read has set
\* reading ends the sequence or emits an error, with no other _read required.
ReadDrivesToEndOrError ==
  \/ <>[]PageOutstanding
  \/ (_reading /\ Errors = <<>>) ~> (EndedAndReset \/ Errors # <<>>)

\* after a single _read, two pages were fetched and the sequence was ended
EndedAfterSingleRead ==
  /\ reads = 1
  /\ EndedAndReset
  /\ Len(CallsOf("scroll")) = 1

----------------------------------------------------------------------------
(* C20 *)

\* the step is a _read of an engine that has ended a sequence and was not
\* read since
ReadAfterEndStep ==
  ReadStep /\ Len(events) > 0 /\ events[Len(events)] = EndEv

\* C20: a step that takes _reading or _forceClose from true to false, or
\* lowers _counter, is the function handed to setImmediate after a clearScroll
\* and sets all three of them to false, 0 and false; no step that emits an
\* error does.  The _read that follows is not suppressed: it sets _reading and
\* issues a search with _options, which are those of the constructor.
ResetOnlyAtCleanEnd ==
  /\ [][(\/ _reading /\ ~_reading'
         \/ _forceClose /\ ~_forceClose'
         \/ _counter' < _counter) =>
          /\ NewEvents = <<EndEv>>
          /\ immediates' = immediates - 1
          /\ ~_reading' /\ _counter' = 0 /\ ~_forceClose'
          /\ \E k \in 1..Len(CurrentLifecycle) :
               IsCall(CurrentLifecycle[k], "clearScroll")]_vars
  /\ [][NewErrors # <<>> => UNCHANGED <<_reading, _counter, _forceClose>>]_vars
  /\ [][ReadAfterEndStep =>
          /\ NewEvents = <<CallEv("search", _options)>>
          /\ _reading' /\ _counter' = 0
          /\ outstanding' = {Len(events')}]_vars
  /\ [](\E c \in Constructions :
          _options = [index |-> "idx",
                      scroll |-> IF c.scroll = "" THEN "10m" ELSE c.scroll])

\* an engine that has ended a sequence was read again and has issued its
\* second search
SearchedAgainAfterEnd ==
  /\ Len(events) >= 2
  /\ IsCall(events[Len(events)], "search")
  /\ events[Len(events) - 1] = EndEv
  /\ outstanding = {Len(events)}

====
